---- MODULE Spec2Model ----
(***************************************************************************)
(* CAN signal accessors of the FOTON VM2 matrix (src/c_code/ac_can.c).     *)
(*                                                                         *)
(* The source is 57 pairs of functions Get_<S>/Set_<S>, all instances of   *)
(* one template that differ only in eight literals: the message id, the    *)
(* base byte and base bit of the bit walk, the loop count, the scale, the  *)
(* offset and the two range bounds.  Sig holds those literals, one row per *)
(* signal, and Get_S/Set_S are the template, so Get_S(f, "AC1_S_AC") is    *)
(* Get_AC1_S_AC(&f, &out) and so on.                                       *)
(*                                                                         *)
(* Physical quantities (scale, offset, min, max) are written in hundredths *)
(* (0.25 is 25, 16383.75 is 1638375): every literal of the source is a     *)
(* whole number of hundredths.                                             *)
(***************************************************************************)
EXTENDS Integers, Sequences, FiniteSets, TLC

VARIABLES
  frame,   \* the caller's CAN_Frame: [id, dlc, data], data[0..7] bytes
  out,     \* the caller's float that Get_<S> writes through `value`
  call,    \* the last completed call: op, sig, arg, ret and the frame and
           \* output variable as they were when it was entered
  left,    \* calls the caller still makes on this frame
  msgs,    \* message ids whose accessors the caller uses on this frame
  pinned,  \* <<A, r>>: r is what Get_A gave right after the successful
           \* Set_A, and every later call was a successful Set_ of another
           \* signal of the same message
  lastOk,  \* signal of the most recent successful Set_ call, or NoSignal
  debug,   \* TRUE when the library was compiled with DEBUG_ENABLE defined
  thr,     \* concurrent Get_ calls on the frame: per caller its position,
           \* signal, loop index, output variable and return value
  acc,     \* the raw_value accumulators of the concurrent calls
  prev,    \* the completed call before the last one, like call, or
           \* NoHistory where the caller's earlier calls are not recorded
  enc,     \* concurrent Set_ calls on the frame: per caller its position,
           \* signal, value, raw value, loop index and the byte it has read
  sync     \* TRUE when the callers of concurrent Set_ calls synchronize, so
           \* that one call runs from entry to return before the next starts

vars ==
  <<frame, out, call, left, msgs, pinned, lastOk, debug, thr, acc, prev,
    enc, sync>>

----------------------------------------------------------------------------
(* The signal table: the literals of each Get_<S>/Set_<S> pair.            *)

Desc(id, byte, bit, len, scale, offset, min, max) ==
  [id |-> id, base_byte |-> byte, base_bit |-> bit, bit_length |-> len,
   scale |-> scale, offset |-> offset, min |-> min, max |-> max]

Sig == [
  EMS3_F_EngineSpeed |->
    Desc(\H120, 1, 6, 1, 100, 0, 0, 100),
  EMS3_N_EngineSpeed |->
    Desc(\H120, 4, 7, 16, 25, 0, 0, 1638375),
  BR1_N_VehicleSpeed |->
    Desc(\H130, 4, 6, 15, 1, 0, 0, 32766),
  PEPS1_St_RemoteControlSt |->
    Desc(\H166, 7, 5, 1, 100, 0, 0, 100),
  EMS2_St_ACON |->
    Desc(\H320, 1, 5, 1, 100, 0, 0, 100),
  EMS2_F_EngineTemp |->
    Desc(\H320, 1, 7, 1, 100, 0, 0, 100),
  EMS2_N_EngineTemp |->
    Desc(\H320, 2, 7, 8, 75, -4800, -4800, 14250),
  EMS11_N_SoakTime |->
    Desc(\H322, 2, 7, 16, 100, 0, 0, 204700),
  TCM1_N_SLP |->
    Desc(\H326, 2, 7, 4, 100, 0, 0, 1500),
  AUDIO7_St_FlowModeVoiceControl |->
    Desc(\H347, 2, 2, 3, 100, 0, 0, 700),
  AUDIO7_St_SetTempVoiceControl_L |->
    Desc(\H347, 2, 7, 5, 50, 1800, 1800, 3200),
  AUDIO7_S_FrontDefrostVoiceControl |->
    Desc(\H347, 3, 4, 2, 100, 0, 0, 300),
  AUDIO7_S_AutoVoiceControl |->
    Desc(\H347, 3, 6, 2, 100, 0, 0, 300),
  AUDIO7_S_AirCirculateVoiceControl |->
    Desc(\H347, 4, 1, 2, 100, 0, 0, 300),
  AUDIO7_S_ACCompresSwitchVoiceControl |->
    Desc(\H347, 4, 3, 2, 100, 0, 0, 300),
  AUDIO7_S_CLMWorkVoiceControl |->
    Desc(\H347, 4, 5, 2, 100, 0, 0, 300),
  AUDIO7_S_SYNC |->
    Desc(\H347, 4, 7, 2, 100, 0, 0, 300),
  AUDIO7_St_BlowerSpdSetVoiceControl |->
    Desc(\H347, 5, 3, 4, 100, 0, 0, 1500),
  AUDIO7_S_RearDefrostVoiceControl |->
    Desc(\H347, 6, 1, 2, 100, 0, 0, 300),
  AUDIO7_St_SetTempVoiceControl_R |->
    Desc(\H347, 6, 6, 5, 50, 1800, 1800, 3200),
  BCM1_St_ReverseGear |->
    Desc(\H363, 4, 4, 1, 100, 0, 0, 100),
  BCM1_F_ReverseGear |->
    Desc(\H363, 4, 5, 1, 100, 0, 0, 100),
  BCM1_N_PM25Value |->
    Desc(\H363, 6, 1, 10, 100, 0, 0, 99900),
  AC1_Checksum |->
    Desc(\H36C, 0, 7, 8, 100, 0, 0, 25500),
  AC1_S_AC |->
    Desc(\H36C, 1, 7, 1, 100, 0, 0, 100),
  AC1_St_Blower |->
    Desc(\H36C, 4, 3, 4, 100, 0, 0, 1500),
  AC1_H_L_PRESS_Sta |->
    Desc(\H36C, 5, 1, 2, 100, 0, 0, 300),
  AC1_St_AirCirculate |->
    Desc(\H36C, 6, 4, 2, 100, 0, 0, 300),
  AC1_MID_PRESS_Status |->
    Desc(\H36C, 6, 7, 1, 100, 0, 0, 100),
  AC1_St_FlowMode |->
    Desc(\H36C, 7, 2, 3, 100, 0, 0, 700),
  AUDIO4_S_PM25AirClean |->
    Desc(\H374, 1, 5, 2, 100, 0, 0, 300),
  AUDIO4_S_SetTempDown_R |->
    Desc(\H374, 1, 7, 1, 100, 0, 0, 100),
  AUDIO4_S_SetTempUp_L |->
    Desc(\H374, 2, 0, 1, 100, 0, 0, 100),
  AUDIO4_S_SetTempDown_L |->
    Desc(\H374, 2, 1, 1, 100, 0, 0, 100),
  AUDIO4_S_SYNC |->
    Desc(\H374, 2, 2, 1, 100, 0, 0, 100),
  AUDIO4_St_SetTemp_L |->
    Desc(\H374, 2, 7, 5, 50, 1800, 1800, 3200),
  AUDIO4_S_TempLevelElectricAC |->
    Desc(\H374, 3, 5, 5, 100, 0, 0, 1600),
  AUDIO4_St_SetBlower |->
    Desc(\H374, 4, 5, 4, 100, 0, 0, 1500),
  AUDIO4_S_NegativeIon |->
    Desc(\H374, 5, 1, 1, 100, 0, 0, 100),
  AUDIO4_S_Auto |->
    Desc(\H374, 5, 2, 1, 100, 0, 0, 100),
  AUDIO4_S_AirCirculate |->
    Desc(\H374, 5, 3, 1, 100, 0, 0, 100),
  AUDIO4_S_ACCompresSwitch |->
    Desc(\H374, 5, 5, 1, 100, 0, 0, 100),
  AUDIO4_S_CLMOFF |->
    Desc(\H374, 5, 6, 1, 100, 0, 0, 100),
  AUDIO4_S_RearDefrost |->
    Desc(\H374, 6, 2, 1, 100, 0, 0, 100),
  AUDIO4_S_FRMPositionSet |->
    Desc(\H374, 6, 6, 4, 100, 0, 0, 1500),
  AC2_Checksum |->
    Desc(\H46C, 0, 7, 8, 100, 0, 0, 25500),
  AC2_N_InsideCarTemp |->
    Desc(\H46C, 2, 7, 8, 50, -5000, -5000, 7700),
  AC2_N_EnvironmentTemp |->
    Desc(\H46C, 3, 7, 8, 50, -5000, -5000, 7700),
  AC2_St_SetTempAutomaticAC_L |->
    Desc(\H46C, 5, 4, 5, 50, 1800, 1800, 3200),
  AC2_St_TempLevelElectricAC |->
    Desc(\H46C, 6, 4, 5, 100, 0, 0, 1600),
  AC2_St_FLSeatHeating |->
    Desc(\H46C, 7, 2, 3, 100, 0, 0, 700),
  AC2_St_RemoteControl |->
    Desc(\H46C, 7, 7, 1, 100, 0, 0, 100),
  TBOX1_St_FrontDefrost |->
    Desc(\H478, 1, 5, 2, 100, 0, 0, 300),
  TBOX1_St_CLM |->
    Desc(\H478, 2, 1, 2, 100, 0, 0, 200),
  TBOX1_St_ACSetTemp |->
    Desc(\H478, 4, 7, 5, 50, 1800, 1800, 3200),
  AC4_Checksum |->
    Desc(\H57C, 0, 7, 8, 100, 0, 0, 25500),
  AC4_Front_EVAP_Temp |->
    Desc(\H57C, 5, 7, 11, 100, -4000, -4000, 8000) ]

Signals == DOMAIN Sig

MsgIds == {Sig[s].id : s \in Signals}

SignalsOf(ids) == {s \in Signals : Sig[s].id \in ids}

NoSignal == "none"

----------------------------------------------------------------------------
(* C `float` (IEEE-754 binary32) values.  A float is the exact dyadic      *)
(* rational m / 2^k, kept in lowest terms so that equal values are equal   *)
(* records.  k is negative only for floats of magnitude 2^24 and more; the *)
(* one such value the accessors produce is 2^64 (see Physical).            *)

Abs(x) == IF x < 0 THEN -x ELSE x

RECURSIVE Canon(_, _)
Canon(m, k) ==
  IF m = 0 THEN [m |-> 0, k |-> 0]
  ELSE IF k > 0 /\ m % 2 = 0 THEN Canon(m \div 2, k - 1)
  ELSE [m |-> m, k |-> k]

\* round to nearest, ties to even: the rounding of a double -> float store
RoundHalfEven(n, d) ==
  LET q == n \div d
      r == n % d
  IN  IF 2 * r > d \/ (2 * r = d /\ q % 2 = 1) THEN q + 1 ELSE q

\* the exponent k that puts a/100 * 2^k in the 24-bit mantissa range
RECURSIVE F32Exp(_, _)
F32Exp(a, k) == IF a * 2^k >= 100 * 2^23 THEN k ELSE F32Exp(a, k + 1)

\* the float nearest to h/100: what a caller passes for the decimal h/100,
\* and what the store `*value = raw * scale + offset` leaves in *value
F32(h) ==
  IF h = 0 THEN Canon(0, 0)
  ELSE LET a == Abs(h)
           k == F32Exp(a, 0)
           m == RoundHalfEven(a * 2^k, 100)
       IN  Canon(IF h < 0 THEN -m ELSE m, k)

\* `value < c` and `value > c` for a float value and the literal c = h/100.
\* The comparison is made in double; no float lies between h/100 and the
\* double nearest to it, so comparing with h/100 itself gives the same answer.
\* A float of magnitude 2^24 or more lies beyond every literal of the source
\* (the largest is 16383.75).
FloatLess(v, h) ==
  IF v.k < 0 THEN v.m < 0 ELSE (100 * v.m) \div 2^v.k < h

FloatGreater(v, h) ==
  IF v.k < 0 THEN v.m > 0
  ELSE LET q == (100 * v.m) \div 2^v.k
           r == (100 * v.m) % 2^v.k
       IN  q > h \/ (q = h /\ r > 0)

\* the float nearest to n / 2^k: the result of a float operation whose exact
\* value is n / 2^k
RECURSIVE F32Shift(_, _)
F32Shift(a, j) == IF a \div 2^j < 2^24 THEN j ELSE F32Shift(a, j + 1)

RoundF32(n, k) ==
  LET a == Abs(n)
      j == F32Shift(a, 0)
      m == RoundHalfEven(a, 2^j)
  IN  Canon(IF n < 0 THEN -m ELSE m, k - j)

\* (float)x for a uint64_t x in [2^64 - 2^39, 2^64): 2^64
Float2p64 == [m |-> 1, k |-> -64]

\* round(): nearest integer, halves away from zero
RoundAway(n, d) ==
  LET a == Abs(n)
      q == a \div d
      r == a % d
      z == IF 2 * r >= d THEN q + 1 ELSE q
  IN  IF n < 0 THEN -z ELSE z

----------------------------------------------------------------------------
(* The bit macros.                                                         *)

\* GET_BIT(data, pos): (((data) >> (pos)) & 0x01)
GET_BIT(data, pos) == (data \div 2^pos) % 2

\* SET_BIT that only ever sets: a 0 never clears a bit that holds 1
SET_BIT_OrOnly(data, pos, value) ==
  data + (1 - GET_BIT(data, pos)) * value * 2^pos

\* SET_BIT(data, pos, value): the value of the right-hand side
\*   ((data) & ~(1UL << (pos))) | ((value) << (pos))
\* for value in {0, 1}; the store into the lvalue is U8 or nothing, by type.
SET_BIT(data, pos, value) == (data - GET_BIT(data, pos) * 2^pos) + value * 2^pos

\* the store of an unsigned long into a uint8_t lvalue (frame->data[...])
U8(x) == x % 256

\* byte_pos that steps to the next lower byte with every bit
byte_pos_PerBit(s, i) == Sig[s].base_byte - i

byte_pos(s, i) == Sig[s].base_byte - (i \div 8)

bit_pos(s, i) == Sig[s].base_bit + (i % 8)

----------------------------------------------------------------------------
(* The accessor template.                                                  *)

\* for (int i = 0; i < bit_length; i++)
\*     SET_BIT(raw_value, i, GET_BIT(frame->data[byte_pos], bit_pos));
\* raw_value is a uint64_t and i < 16, so the store loses nothing.
\* GetLoop that fills raw_value from its most significant bit downwards
RECURSIVE GetLoop_Reversed(_, _, _, _)
GetLoop_Reversed(data, s, i, raw_value) ==
  IF i < Sig[s].bit_length
  THEN GetLoop_Reversed(data, s, i + 1,
                        SET_BIT(raw_value, Sig[s].bit_length - 1 - i,
                                GET_BIT(data[byte_pos(s, i)], bit_pos(s, i))))
  ELSE raw_value

\* GetLoop with the bits walked past bit 7 taken from the following byte
RECURSIVE GetLoop_Wide(_, _, _, _)
GetLoop_Wide(data, s, i, raw_value) ==
  IF i < Sig[s].bit_length
  THEN LET over == bit_pos(s, i) > 7 /\ byte_pos(s, i) < 7
           b == IF over THEN byte_pos(s, i) + 1 ELSE byte_pos(s, i)
           p == IF over THEN bit_pos(s, i) - 8 ELSE bit_pos(s, i)
       IN  GetLoop_Wide(data, s, i + 1,
                        SET_BIT(raw_value, i, GET_BIT(data[b], p)))
  ELSE raw_value

RECURSIVE GetLoop(_, _, _, _)
GetLoop(data, s, i, raw_value) ==
  IF i < Sig[s].bit_length
  THEN GetLoop(data, s, i + 1,
               SET_BIT(raw_value, i,
                       GET_BIT(data[byte_pos(s, i)], bit_pos(s, i))))
  ELSE raw_value

\* SetLoop with the byte assigned instead of merged:
\*     frame->data[byte_pos] = bit_val << bit_pos;
RECURSIVE SetLoop_WholeByte(_, _, _, _)
SetLoop_WholeByte(data, s, i, raw_value) ==
  IF i < Sig[s].bit_length
  THEN SetLoop_WholeByte(
         [data EXCEPT ![byte_pos(s, i)] =
            U8(GET_BIT(raw_value, i) * 2^bit_pos(s, i))],
         s, i + 1, raw_value)
  ELSE data

\* SetLoop with the bits walked past bit 7 carried into the following byte,
\* as a store through a wider lvalue would do
RECURSIVE SetLoop_Wide(_, _, _, _)
SetLoop_Wide(data, s, i, raw_value) ==
  IF i < Sig[s].bit_length
  THEN LET over == bit_pos(s, i) > 7 /\ byte_pos(s, i) < 7
           b == IF over THEN byte_pos(s, i) + 1 ELSE byte_pos(s, i)
           p == IF over THEN bit_pos(s, i) - 8 ELSE bit_pos(s, i)
       IN  SetLoop_Wide(
             [data EXCEPT ![b] = U8(SET_BIT(@, p, GET_BIT(raw_value, i)))],
             s, i + 1, raw_value)
  ELSE data

\* SetLoop that toggles the addressed bit by bit_val
RECURSIVE SetLoop_Toggle(_, _, _, _)
SetLoop_Toggle(data, s, i, raw_value) ==
  IF i < Sig[s].bit_length
  THEN SetLoop_Toggle(
         [data EXCEPT ![byte_pos(s, i)] =
            U8(SET_BIT(@, bit_pos(s, i),
                       (GET_BIT(@, bit_pos(s, i)) + GET_BIT(raw_value, i)) % 2))],
         s, i + 1, raw_value)
  ELSE data

\* for (int i = 0; i < bit_length; i++) {
\*     uint8_t bit_val = GET_BIT(raw_value, i);
\*     SET_BIT(frame->data[byte_pos], bit_pos, bit_val); }
RECURSIVE SetLoop(_, _, _, _)
SetLoop(data, s, i, raw_value) ==
  IF i < Sig[s].bit_length
  THEN SetLoop([data EXCEPT ![byte_pos(s, i)] =
                  U8(SET_BIT(@, bit_pos(s, i), GET_BIT(raw_value, i)))],
               s, i + 1, raw_value)
  ELSE data

\* The scale and offset literals written without a decimal point (1, 0, -40)
\* are ints; every such scale in the source is 1.
IntegerFormula(s) == Sig[s].scale = 100 /\ Sig[s].offset % 100 = 0

\* *value = (raw_value * scale) + offset;
\* With a double literal the right-hand side is computed in double and stored
\* as float.  With int literals it is computed in uint64_t, the type of
\* raw_value: the int offset is converted to uint64_t and the sum wraps modulo
\* 2^64, so a negative raw_value + offset becomes a number just below 2^64,
\* which the store rounds to the float 2^64.
Physical(s, raw_value) ==
  IF IntegerFormula(s)
  THEN LET n == raw_value + Sig[s].offset \div 100
       IN  IF n >= 0 THEN F32(100 * n) ELSE Float2p64
  ELSE F32(raw_value * Sig[s].scale + Sig[s].offset)

\* OutOfRange that accepts one further step above the maximum
OutOfRange_Lax(s, v) ==
  FloatLess(v, Sig[s].min) \/ FloatGreater(v, Sig[s].max + Sig[s].scale)

\* OutOfRange with the upper bound forgotten
OutOfRange_LowerOnly(s, v) == FloatLess(v, Sig[s].min)

\* if (value < min || value > max)
OutOfRange(s, v) == FloatLess(v, Sig[s].min) \/ FloatGreater(v, Sig[s].max)

\* RawValue with the cast applied without round(): truncation toward zero
RawValue_Truncate(s, v) ==
  IF IntegerFormula(s)
  THEN (v.m - (Sig[s].offset \div 100) * 2^v.k) \div 2^v.k
  ELSE (100 * v.m - Sig[s].offset * 2^v.k) \div (Sig[s].scale * 2^v.k)

\* (uint64_t)round((value - offset) / scale), for a value that passed the
\* range check.  With a double literal the quotient is computed in double,
\* where it is exact to far less than the distance of any float quotient from
\* a half; with int literals value - offset is a float subtraction and the
\* division is by 1.
RawValue(s, v) ==
  IF IntegerFormula(s)
  THEN LET d == RoundF32(v.m - (Sig[s].offset \div 100) * 2^v.k, v.k)
       IN  RoundAway(d.m, 2^d.k)
  ELSE RoundAway(100 * v.m - Sig[s].offset * 2^v.k, Sig[s].scale * 2^v.k)

\* Get_S with the identifier check left out
Get_S_NoIdCheck(f, o, s) ==
  LET v == Physical(s, GetLoop(f.data, s, 0, 0))
  IN  [ret |-> ~OutOfRange(s, v), value |-> v]

\* Get_S that rejects a frame whose dlc is not 8
Get_S_DlcCheck(f, o, s) ==
  IF f.id # Sig[s].id \/ f.dlc # 8
  THEN [ret |-> FALSE, value |-> o]
  ELSE LET v == Physical(s, GetLoop(f.data, s, 0, 0))
       IN  [ret |-> ~OutOfRange(s, v), value |-> v]

\* Get_S that stores 0 through `value` when the identifier does not match
Get_S_DefaultOnMismatch(f, o, s) ==
  IF f.id # Sig[s].id
  THEN [ret |-> FALSE, value |-> F32(0)]
  ELSE LET v == Physical(s, GetLoop(f.data, s, 0, 0))
       IN  [ret |-> ~OutOfRange(s, v), value |-> v]

\* Get_S that stores through `value` only after the range check has passed
Get_S_StoreAfterCheck(f, o, s) ==
  IF f.id # Sig[s].id
  THEN [ret |-> FALSE, value |-> o]
  ELSE LET v == Physical(s, GetLoop(f.data, s, 0, 0))
       IN  [ret |-> ~OutOfRange(s, v),
            value |-> IF OutOfRange(s, v) THEN o ELSE v]

\* bool Get_<S>(const CAN_Frame* frame, float* value), both pointers valid.
\* f is *frame and o is *value on entry; the result is the return value and
\* *value on exit.
Get_S(f, o, s) ==
  IF f.id # Sig[s].id
  THEN [ret |-> FALSE, value |-> o]
  ELSE LET v == Physical(s, GetLoop(f.data, s, 0, 0))
       IN  [ret |-> ~OutOfRange(s, v), value |-> v]

\* Set_S that clears the payload before it writes the field
Set_S_ClearFirst(f, s, v) ==
  IF OutOfRange(s, v)
  THEN [ret |-> FALSE, frame |-> f]
  ELSE [ret |-> TRUE,
        frame |-> [id |-> Sig[s].id, dlc |-> 8,
                   data |-> SetLoop([n \in 0..7 |-> 0], s, 0, RawValue(s, v))]]

\* Set_S with the id and dlc stamped before the range check
Set_S_StampFirst(f, s, v) ==
  LET g == [f EXCEPT !.id = Sig[s].id, !.dlc = 8]
  IN  IF OutOfRange(s, v)
      THEN [ret |-> FALSE, frame |-> g]
      ELSE [ret |-> TRUE,
            frame |-> [g EXCEPT !.data = SetLoop(f.data, s, 0, RawValue(s, v))]]

\* Set_S with the id stamped only into a frame that carries no id yet
Set_S_KeepId(f, s, v) ==
  IF OutOfRange(s, v)
  THEN [ret |-> FALSE, frame |-> f]
  ELSE [ret |-> TRUE,
        frame |-> [id |-> IF f.id = 0 THEN Sig[s].id ELSE f.id, dlc |-> 8,
                   data |-> SetLoop(f.data, s, 0, RawValue(s, v))]]

\* bool Set_<S>(CAN_Frame* frame, float value), frame valid.
\* The result is the return value and *frame on exit.
Set_S(f, s, v) ==
  IF OutOfRange(s, v)
  THEN [ret |-> FALSE, frame |-> f]
  ELSE [ret |-> TRUE,
        frame |-> [id |-> Sig[s].id, dlc |-> 8,
                   data |-> SetLoop(f.data, s, 0, RawValue(s, v))]]

----------------------------------------------------------------------------
(* Pointer arguments and the two builds.                                   *)

\* what a caller passes for `frame` or `value`: NULL or the address of its
\* own object
NULL == "NULL"

Valid == "valid"

Pointers == {NULL, Valid}

\* ERROR_TRAP that ends the process in the release build as well
ERROR_TRAP_AlwaysFatal(dbg, condition) ==
  IF condition THEN "pass" ELSE "exit"

\* ERROR_TRAP that returns false in the debug build as well
ERROR_TRAP_NeverFatal(dbg, condition) ==
  IF condition THEN "pass" ELSE "return"

\* ERROR_TRAP(condition, msg): with DEBUG_ENABLE the failed condition ends
\* the process by exit(EXIT_FAILURE), without it the function returns false
ERROR_TRAP(dbg, condition) ==
  IF condition THEN "pass" ELSE IF dbg THEN "exit" ELSE "return"

\* bool Get_<S>(const CAN_Frame* frame, float* value) as it is called: fp
\* and vp are the two pointers, f and o the caller's frame and output
\* variable.  end is "return" or "exit"; ret is the return value.
Get_Call(dbg, fp, vp, f, o, s) ==
  LET t1 == ERROR_TRAP(dbg, fp # NULL)
      t2 == ERROR_TRAP(dbg, vp # NULL)
      r == Get_S(f, o, s)
  IN  IF t1 # "pass"
      THEN [end |-> t1, ret |-> FALSE, value |-> o]
      ELSE IF t2 # "pass"
      THEN [end |-> t2, ret |-> FALSE, value |-> o]
      ELSE [end |-> "return", ret |-> r.ret, value |-> r.value]

\* bool Set_<S>(CAN_Frame* frame, float value) as it is called: the set of
\* outcomes.  Set_<S> has no ERROR_TRAP: the range check reads `value` only,
\* and past it frame->data[byte_pos] is read and written.  Through a null
\* frame that access is undefined: the process is ended by the fault
\* ("crash"), or the stores land at address 0 and the call returns true; in
\* both the caller's frame is not the object written.
Set_Call(dbg, fp, f, s, v) ==
  LET r == Set_S(f, s, v)
  IN  IF fp # NULL
      THEN {[end |-> "return", ret |-> r.ret, frame |-> r.frame]}
      ELSE IF OutOfRange(s, v)
      THEN {[end |-> "return", ret |-> FALSE, frame |-> f]}
      ELSE {[end |-> "crash", ret |-> FALSE, frame |-> f],
            [end |-> "return", ret |-> TRUE, frame |-> f]}

----------------------------------------------------------------------------
(* Callers.                                                                *)

ProbeSteps == 2

MaxCalls == 2

\* a frame whose eight payload bytes all hold b
Filled(id, dlc, b) == [id |-> id, dlc |-> dlc, data |-> [n \in 0..7 |-> b]]

\* an identifier that belongs to no message of the matrix
OtherId == \H7FF

Fills == {\H00, \HFF, \HA5, \H5A}

\* an EMS_2 frame whose byte 2 holds 0x98 (152, the raw value of 66.0
\* degrees under the 0.75/-48 formula) over any fill of the other bytes
EngineTempFrames ==
  {[Filled(\H320, dlc, b) EXCEPT !.data[2] = \H98] : dlc \in {0, 8}, b \in Fills}

Frames ==
  {Filled(id, dlc, b) : id \in MsgIds \cup {OtherId}, dlc \in {0, 8}, b \in Fills}
    \cup EngineTempFrames

\* the caller's output variable before any call: -100.0, in no signal's range
Untouched == F32(-10000)

\* values on the signal's grid, up to n steps inside each end of the range
\* and one step outside it, and the two half steps where the float is exact
GridArgs(s, n) ==
  LET d == Sig[s]
      grid == {d.min + j * d.scale : j \in -1..n} \cup
              {d.max - j * d.scale : j \in -1..n}
      half == IF d.scale % 2 = 0
              THEN {d.min + d.scale \div 2, d.max - d.scale \div 2}
              ELSE {}
  IN  {F32(h) : h \in grid \cup half}

\* values a caller passes beside the grid: 100.00 km/h to the vehicle speed
ScenarioArgs(s) ==
  IF s = "BR1_N_VehicleSpeed" THEN {F32(10000)} ELSE {}

\* no concurrent Get_ calls
NoThreads == <<>>

NoCall(f, o) ==
  [op |-> "none", sig |-> NoSignal, arg |-> F32(0), ret |-> FALSE,
   frame0 |-> f, out0 |-> o, fp |-> Valid, vp |-> Valid, end |-> "return"]

\* the call before the last one is not recorded
NoHistory == [NoCall(Filled(OtherId, 0, \H00), Untouched) EXCEPT !.op = "off"]

\* the record of the call before the last one, once c is no longer the last
Shift(p, c) == IF p = NoHistory THEN p ELSE c

\* one single call on any frame
Init ==
  /\ frame \in Frames
  /\ out = Untouched
  /\ call = NoCall(frame, out)
  /\ left = 1
  /\ msgs = MsgIds
  /\ pinned = {}
  /\ lastOk = NoSignal
  /\ debug \in BOOLEAN
  /\ thr = NoThreads
  /\ acc = NoThreads
  /\ prev = call
  /\ enc = NoThreads
  /\ sync = TRUE

\* Get_<S>(&frame, &out)
GetCall(s) ==
  /\ left > 0
  /\ Sig[s].id \in msgs
  /\ LET r == Get_Call(debug, Valid, Valid, frame, out, s)
     IN  /\ out' = r.value
         /\ call' = [op |-> "Get", sig |-> s, arg |-> F32(0), ret |-> r.ret,
                     frame0 |-> frame, out0 |-> out,
                     fp |-> Valid, vp |-> Valid, end |-> r.end]
  /\ left' = left - 1
  /\ pinned' = {}
  /\ prev' = Shift(prev, call)
  /\ UNCHANGED <<frame, msgs, lastOk, debug, thr, acc, enc, sync>>

\* Get_<S>(fp, vp) with at least one of the two pointers null; a call that
\* ends the process leaves the caller no further call
GetNull(s, fp, vp) ==
  /\ left > 0
  /\ Sig[s].id \in msgs
  /\ NULL \in {fp, vp}
  /\ LET r == Get_Call(debug, fp, vp, frame, out, s)
     IN  /\ out' = r.value
         /\ call' = [op |-> "GetNull", sig |-> s, arg |-> F32(0),
                     ret |-> r.ret, frame0 |-> frame, out0 |-> out,
                     fp |-> fp, vp |-> vp, end |-> r.end]
         /\ left' = IF r.end = "return" THEN left - 1 ELSE 0
  /\ pinned' = {}
  /\ prev' = Shift(prev, call)
  /\ UNCHANGED <<frame, msgs, lastOk, debug, thr, acc, enc, sync>>

\* Set_<S>(NULL, v)
SetNull(s, v) ==
  /\ left > 0
  /\ Sig[s].id \in msgs
  /\ \E r \in Set_Call(debug, NULL, frame, s, v) :
       /\ frame' = r.frame
       /\ call' = [op |-> "SetNull", sig |-> s, arg |-> v, ret |-> r.ret,
                   frame0 |-> frame, out0 |-> out,
                   fp |-> NULL, vp |-> Valid, end |-> r.end]
       /\ left' = IF r.end = "return" THEN left - 1 ELSE 0
  /\ pinned' = {}
  /\ prev' = Shift(prev, call)
  /\ UNCHANGED <<out, msgs, lastOk, debug, thr, acc, enc, sync>>

\* Set_<S>(&frame, v)
SetCall(s, v) ==
  /\ left > 0
  /\ Sig[s].id \in msgs
  /\ LET r == CHOOSE x \in Set_Call(debug, Valid, frame, s, v) : TRUE
     IN  /\ frame' = r.frame
         /\ call' = [op |-> "Set", sig |-> s, arg |-> v, ret |-> r.ret,
                     frame0 |-> frame, out0 |-> out,
                     fp |-> Valid, vp |-> Valid, end |-> r.end]
         /\ pinned' =
              IF r.ret
              THEN {p \in pinned : p[1] # s /\ Sig[p[1]].id = Sig[s].id}
                     \cup {<<s, Get_S(r.frame, out, s)>>}
              ELSE {}
         /\ lastOk' = IF r.ret THEN s ELSE lastOk
  /\ left' = left - 1
  /\ prev' = Shift(prev, call)
  /\ UNCHANGED <<out, msgs, debug, thr, acc, enc, sync>>

\* the values a caller probes each setter with
ProbeArgs ==
  [s \in Signals |-> GridArgs(s, ProbeSteps) \cup ScenarioArgs(s)]

\* the values a packing caller passes, and a caller with a null frame:
\* both ends of the range (raw all zeros, raw at its largest) and the first
\* value beyond the upper end
EdgeArgs ==
  [s \in Signals |->
     {F32(Sig[s].min), F32(Sig[s].max), F32(Sig[s].max + Sig[s].scale)}]

Next ==
  \/ \E s \in Signals : GetCall(s)
  \/ \E s \in Signals : \E v \in ProbeArgs[s] : SetCall(s, v)
  \/ \E s \in Signals : \E fp \in Pointers : \E vp \in Pointers :
       GetNull(s, fp, vp)
  \/ \E s \in Signals : \E v \in EdgeArgs[s] : SetNull(s, v)

Spec == Init /\ [][Next]_vars

\* A caller that packs a message by a sequence of setters on one buffer and
\* then reuses the buffer for the next message of the matrix: the session's
\* messages are m and the message with the next higher id (cyclically).
NextMsg(m) ==
  LET above == {x \in MsgIds : x > m}
      least(S) == CHOOSE x \in S : \A y \in S : x <= y
  IN  IF above = {} THEN least(MsgIds) ELSE least(above)

SeqFrames == {Filled(OtherId, 0, \H00), Filled(OtherId, 8, \HFF)}

\* the packing caller uses the release build; no Set_<S> has a trap
InitSeq ==
  /\ frame \in SeqFrames
  /\ out = Untouched
  /\ call = NoCall(frame, out)
  /\ left = MaxCalls
  /\ msgs \in {{m, NextMsg(m)} : m \in MsgIds}
  /\ pinned = {}
  /\ lastOk = NoSignal
  /\ debug = FALSE
  /\ thr = NoThreads
  /\ acc = NoThreads
  /\ prev = NoHistory
  /\ enc = NoThreads
  /\ sync = TRUE

NextSeq ==
  \E s \in Signals : \E v \in EdgeArgs[s] : SetCall(s, v)

SpecSeq == InitSeq /\ [][NextSeq]_vars

\* A caller that makes two Set_ calls of the signals of one message on one
\* buffer; the frame before the first call is kept with the first call.
PairFrames == {Filled(OtherId, dlc, b) : dlc \in {0, 8}, b \in Fills}

InitPair ==
  /\ frame \in PairFrames
  /\ out = Untouched
  /\ call = NoCall(frame, out)
  /\ left = 2
  /\ msgs \in {{m} : m \in MsgIds}
  /\ pinned = {}
  /\ lastOk = NoSignal
  /\ debug = FALSE
  /\ thr = NoThreads
  /\ acc = NoThreads
  /\ prev = call
  /\ enc = NoThreads
  /\ sync = TRUE

SpecPair == InitPair /\ [][NextSeq]_vars

\* Callers that decode one received frame concurrently, each into its own
\* output variable, and no Set_ call: the frame carries message m and the
\* callers use the accessors of m and of the next message of the matrix.
\* One step of a caller is one access to the shared frame together with the
\* caller-local work up to the next access.
Callers == 2

Threads == 1..Callers

\* a received frame of each message, with a payload of mixed bits
ConcFrames == {Filled(m, 8, \HA5) : m \in MsgIds}

Idle ==
  [pc |-> "idle", sig |-> NoSignal, i |-> 0, out |-> Untouched, ret |-> FALSE]

\* raw_value kept in one static cell that all calls use
RawCell_Static(t) == 1

\* uint64_t raw_value = 0; is an automatic variable: each call has its own
RawCell(t) == t

InitConc ==
  /\ frame \in ConcFrames
  /\ out = Untouched
  /\ call = NoCall(frame, out)
  /\ left = 0
  /\ msgs = {frame.id, NextMsg(frame.id)}
  /\ pinned = {}
  /\ lastOk = NoSignal
  /\ debug = FALSE
  /\ thr = [t \in Threads |-> Idle]
  /\ acc = [t \in Threads |-> 0]
  /\ prev = call
  /\ enc = NoThreads
  /\ sync = TRUE

\* entry of Get_<S>(&frame, &out_t): both traps pass, then the identifier
\* check reads frame->id; on a match raw_value is set to 0
Begin(t, s) ==
  /\ thr[t].pc = "idle"
  /\ Sig[s].id \in msgs
  /\ IF frame.id # Sig[s].id
     THEN /\ thr' = [thr EXCEPT ![t] = [@ EXCEPT !.pc = "done", !.sig = s]]
          /\ acc' = acc
     ELSE /\ thr' = [thr EXCEPT ![t] = [@ EXCEPT !.pc = "loop", !.sig = s]]
          /\ acc' = [acc EXCEPT ![RawCell(t)] = 0]
  /\ UNCHANGED <<frame, out, call, left, msgs, pinned, lastOk, debug, prev,
               enc, sync>>

\* one iteration of the loop: reads frame->data[byte_pos]
Iter(t) ==
  /\ thr[t].pc = "loop"
  /\ thr[t].i < Sig[thr[t].sig].bit_length
  /\ LET s == thr[t].sig
         i == thr[t].i
     IN  acc' = [acc EXCEPT ![RawCell(t)] =
                   SET_BIT(@, i, GET_BIT(frame.data[byte_pos(s, i)],
                                         bit_pos(s, i)))]
  /\ thr' = [thr EXCEPT ![t] = [@ EXCEPT !.i = @ + 1]]
  /\ UNCHANGED <<frame, out, call, left, msgs, pinned, lastOk, debug, prev,
               enc, sync>>

\* after the loop: *value = raw_value * scale + offset, the range check and
\* the return
Finish(t) ==
  /\ thr[t].pc = "loop"
  /\ thr[t].i = Sig[thr[t].sig].bit_length
  /\ LET v == Physical(thr[t].sig, acc[RawCell(t)])
     IN  thr' = [thr EXCEPT ![t] =
                   [@ EXCEPT !.pc = "done", !.out = v,
                             !.ret = ~OutOfRange(thr[t].sig, v)]]
  /\ UNCHANGED <<frame, out, call, left, msgs, pinned, lastOk, debug, acc,
               prev, enc, sync>>

NextConc ==
  \/ \E t \in Threads : \E s \in Signals : Begin(t, s)
  \/ \E t \in Threads : Iter(t)
  \/ \E t \in Threads : Finish(t)

SpecConc == InitConc /\ [][NextConc]_vars

\* Two callers that encode different signals of one message into one frame
\* buffer.  SET_BIT(frame->data[byte_pos], bit_pos, bit_val) is a read of the
\* byte followed by a write of the byte; one step of a caller is one such
\* access.  With sync the callers serialize whole calls, without it their
\* steps interleave freely.
Writers == {1, 2}

RaceFrames == {Filled(m, 8, b) : m \in MsgIds, b \in {\H00, \HFF}}

IdleSet ==
  [pc |-> "idle", sig |-> NoSignal, arg |-> F32(0), raw |-> 0, i |-> 0,
   tmp |-> 0, ret |-> FALSE]

InitRace ==
  /\ frame \in RaceFrames
  /\ out = Untouched
  /\ call = NoCall(frame, out)
  /\ left = 0
  /\ msgs = {frame.id}
  /\ pinned = {}
  /\ lastOk = NoSignal
  /\ debug = FALSE
  /\ thr = NoThreads
  /\ acc = NoThreads
  /\ prev = call
  /\ enc = [t \in Writers |-> IdleSet]
  /\ sync \in BOOLEAN

\* caller t is inside its Set_ call
Running(t) == enc[t].pc \notin {"idle", "done"}

\* callers that synchronize let a call finish before another one moves
MayStep(t) == sync => \A u \in Writers \ {t} : ~Running(u)

\* a store that replaces the whole byte by the one bit
StoreBit_WholeByte(byte, pos, bit_val) == U8(bit_val * 2^pos)

\* the byte SET_BIT stores back, computed from the byte it has read
StoreBit(byte, pos, bit_val) == U8(SET_BIT(byte, pos, bit_val))

\* entry of Set_<S>(&frame, v): the range check and the raw value, which
\* touch only the argument
Enter(t, s, v) ==
  /\ enc[t].pc = "idle"
  /\ MayStep(t)
  /\ Sig[s].id \in msgs
  /\ \A u \in Writers \ {t} : enc[u].sig # s
  /\ enc' = [enc EXCEPT ![t] =
               IF OutOfRange(s, v)
               THEN [@ EXCEPT !.pc = "done", !.sig = s, !.arg = v]
               ELSE [@ EXCEPT !.pc = "read", !.sig = s, !.arg = v,
                              !.raw = RawValue(s, v)]]
  /\ UNCHANGED <<frame, out, call, left, msgs, pinned, lastOk, debug, thr,
                 acc, prev, sync>>

\* SET_BIT, first half: read frame->data[byte_pos]
ReadByte(t) ==
  /\ enc[t].pc = "read"
  /\ MayStep(t)
  /\ enc' = [enc EXCEPT ![t] =
               [@ EXCEPT !.pc = "write",
                         !.tmp = frame.data[byte_pos(enc[t].sig, enc[t].i)]]]
  /\ UNCHANGED <<frame, out, call, left, msgs, pinned, lastOk, debug, thr,
                 acc, prev, sync>>

\* SET_BIT, second half: write frame->data[byte_pos]; then i++
WriteByte(t) ==
  /\ enc[t].pc = "write"
  /\ MayStep(t)
  /\ LET s == enc[t].sig
         i == enc[t].i
     IN  /\ frame' = [frame EXCEPT !.data[byte_pos(s, i)] =
                        StoreBit(enc[t].tmp, bit_pos(s, i),
                                 GET_BIT(enc[t].raw, i))]
         /\ enc' = [enc EXCEPT ![t] =
                      [@ EXCEPT !.i = i + 1,
                                !.pc = IF i + 1 < Sig[s].bit_length
                                       THEN "read" ELSE "stamp"]]
  /\ UNCHANGED <<out, call, left, msgs, pinned, lastOk, debug, thr, acc,
                 prev, sync>>

\* frame->id = id; frame->dlc = 8; return true
Stamp(t) ==
  /\ enc[t].pc = "stamp"
  /\ MayStep(t)
  /\ frame' = [frame EXCEPT !.id = Sig[enc[t].sig].id, !.dlc = 8]
  /\ enc' = [enc EXCEPT ![t] = [@ EXCEPT !.pc = "done", !.ret = TRUE]]
  /\ UNCHANGED <<out, call, left, msgs, pinned, lastOk, debug, thr, acc,
                 prev, sync>>

NextRace ==
  \/ \E t \in Writers : \E s \in Signals : \E v \in EdgeArgs[s] :
       Enter(t, s, v)
  \/ \E t \in Writers : ReadByte(t)
  \/ \E t \in Writers : WriteByte(t)
  \/ \E t \in Writers : Stamp(t)

SpecRace == InitRace /\ [][NextRace]_vars

----------------------------------------------------------------------------
(* Properties.                                                             *)

\* the signal of the last call
S0 == call.sig

IsSet == call.op = "Set"

IsGet == call.op = "Get"

\* lo/100 <= v <= hi/100, by exact integer arithmetic
Within(v, lo, hi) ==
  /\ v.k >= 0
  /\ lo <= (100 * v.m) \div 2^v.k
  /\ -((-(100 * v.m)) \div 2^v.k) <= hi

\* bit p of payload byte b
PayloadBit(data, b, p) == (data[b] \div 2^p) % 2

\* the positions the loop of signal s walks
Span(s) == {<<byte_pos(s, i), bit_pos(s, i)>> : i \in 0..(Sig[s].bit_length - 1)}

\* the largest raw value whose physical value is within the range
MaxRaw(s) == (Sig[s].max - Sig[s].offset) \div Sig[s].scale

\* the physical values of the raw values near both ends of the range
GridValues ==
  [s \in Signals |->
     {F32(Sig[s].offset + r * Sig[s].scale) :
        r \in {x \in (0..ProbeSteps) \cup ((MaxRaw(s) - ProbeSteps)..MaxRaw(s)) :
                 x >= 0 /\ x <= MaxRaw(s) /\ x < 2^Sig[s].bit_length}}]

\* C1: Round-trip.  After Set_S with the physical value of a raw value r whose
\* physical value is within [min, max], the call has succeeded and Get_S on
\* the resulting frame succeeds with exactly that physical value.
C1_RoundTrip ==
  (IsSet /\ call.arg \in GridValues[S0]) =>
    /\ call.ret
    /\ Get_S(frame, out, S0) = [ret |-> TRUE, value |-> call.arg]

\* C2: Non-interference within a message.  For every signal A that was set
\* successfully and followed only by successful Set_ calls of other signals
\* of its message, Get_A still gives what it gave right after Set_A; and a
\* successful Set_ leaves the raw value of every other signal of its message
\* as it was.
C2_NonInterference ==
  /\ \A p \in pinned : Get_S(frame, out, p[1]) = p[2]
  /\ (IsSet /\ call.ret) =>
       \A a \in SignalsOf({Sig[S0].id}) \ {S0} :
         GetLoop(frame.data, a, 0, 0) = GetLoop(call.frame0.data, a, 0, 0)

\* a signal set earlier is still pinned after a later successful Set_ of
\* another signal of the message has changed the payload
C2_Witness ==
  /\ IsSet /\ call.ret
  /\ frame.data # call.frame0.data
  /\ \E p \in pinned : p[1] # S0 /\ p[2].ret

\* The big-endian reference: bit j of the field, counted from its most
\* significant bit, lies j positions below the start bit, descending within
\* the byte and continuing at bit 7 of the next lower-indexed byte.
MotorolaBit(data, s, j) ==
  LET o == (7 - Sig[s].base_bit) + j
      b == Sig[s].base_byte - (o \div 8)
  IN  IF b \in 0..7 THEN PayloadBit(data, b, 7 - (o % 8)) ELSE 0

RECURSIVE MotorolaRaw(_, _, _)
MotorolaRaw(data, s, j) ==
  IF j < Sig[s].bit_length
  THEN MotorolaBit(data, s, j) * 2^(Sig[s].bit_length - 1 - j)
         + MotorolaRaw(data, s, j + 1)
  ELSE 0

\* C3: Motorola layout.  The value Get_S delivers is the physical value of
\* the big-endian reference extraction, and after a successful Set_S the
\* reference extraction gives the raw value that was encoded.
C3_Motorola ==
  /\ (IsGet /\ frame.id = Sig[S0].id) =>
       out = Physical(S0, MotorolaRaw(frame.data, S0, 0))
  /\ (IsSet /\ call.ret) =>
       MotorolaRaw(frame.data, S0, 0) = RawValue(S0, call.arg)

\* C4: Range enforcement.  Set_S fails one resolution step below min and one
\* step above max, and succeeds at exactly min and at exactly max.
C4_RangeEnforcement ==
  IsSet =>
    /\ call.arg \in {F32(Sig[S0].min - Sig[S0].scale),
                     F32(Sig[S0].max + Sig[S0].scale)} => ~call.ret
    /\ call.arg \in {F32(Sig[S0].min), F32(Sig[S0].max)} => call.ret

\* C5: Encode failure leaves the frame untouched.  Whenever Set_S returns
\* false, id, dlc and all eight data bytes are as they were before the call.
C5_FailureLeavesFrame ==
  (IsSet /\ ~call.ret) => frame = call.frame0

\* a failed Set_S on a frame that a stamp or a write would have changed
C5_Witness ==
  /\ IsSet /\ ~call.ret
  /\ frame.id # Sig[S0].id
  /\ frame.dlc # 8

\* C6: Identifier gating.  Get_S on a frame whose id is not the id of S's
\* message returns false, whatever the payload and the dlc are.
C6_IdGating ==
  (IsGet /\ frame.id # Sig[S0].id) => ~call.ret

\* Get_S on a frame of another message whose payload, under S's own id,
\* decodes successfully
C6_Witness ==
  /\ IsGet /\ frame.id # Sig[S0].id /\ frame.id \in MsgIds
  /\ Get_S([frame EXCEPT !.id = Sig[S0].id], out, S0).ret

\* C7: Decode postcondition.  Whenever Get_S returns true, the value it wrote
\* lies in [min, max].
C7_DecodeInRange ==
  (IsGet /\ call.ret) => Within(out, Sig[S0].min, Sig[S0].max)

\* a successful decode of a value that is not the lower bound
C7_Witness ==
  /\ IsGet /\ call.ret
  /\ out # F32(Sig[S0].min)

\* C8: Encode frame effect on data.  A successful Set_S changes no payload
\* bit outside the positions its loop walks.
C8_OnlySpanChanges ==
  (IsSet /\ call.ret) =>
    \A b \in 0..7 : \A p \in 0..7 :
      <<b, p>> \notin Span(S0) =>
        PayloadBit(frame.data, b, p) = PayloadBit(call.frame0.data, b, p)

\* a successful Set_S that changed the payload
C8_Witness ==
  /\ IsSet /\ call.ret
  /\ frame.data # call.frame0.data

\* C9: Identifier/DLC stamping.  After a sequence of Set_ calls of which at
\* least one succeeded, the frame's id is the message id of the most recent
\* successful one and its dlc is 8.
C9_Stamping ==
  lastOk # NoSignal => (frame.id = Sig[lastOk].id /\ frame.dlc = 8)

\* a successful Set_ on a frame that a setter of another message had stamped
C9_Witness ==
  /\ IsSet /\ call.ret /\ lastOk = S0
  /\ call.frame0.id \in MsgIds
  /\ call.frame0.id # frame.id

\* C10: Idempotent re-encode.  After a successful Set_S(v) has left F1, with
\* v' the value Get_S delivers on F1, Set_S(v') leaves F1 as it is.
C10_IdempotentReencode ==
  (IsSet /\ call.ret) =>
    Set_S(frame, S0, Get_S(frame, out, S0).value).frame = frame

\* a successful Set_S(v) whose frame decodes successfully to another value
\* than v, which is then encoded again
C10_Witness ==
  /\ IsSet /\ call.ret
  /\ Get_S(frame, out, S0).ret
  /\ Get_S(frame, out, S0).value # call.arg
  /\ Set_S(frame, S0, Get_S(frame, out, S0).value).ret

IsGetNull == call.op = "GetNull"

IsSetNull == call.op = "SetNull"

\* the raw value the loop of Get_S extracts from the frame
Raw0 == GetLoop(frame.data, S0, 0, 0)

\* C11: Concrete scenario 1.  Get_EMS2_N_EngineTemp on a frame with id 0x320
\* whose byte 2 holds 0x98, whatever the other bytes hold, returns true with
\* 152 * 0.75 - 48 = 66.0.
C11_EngineTempScenario ==
  (IsGet /\ S0 = "EMS2_N_EngineTemp" /\ frame.id = \H320 /\ frame.data[2] = \H98)
    => (call.ret /\ out = F32(6600))

\* C12: Concrete scenario 2.  Set_BR1_N_VehicleSpeed with 100.00 succeeds on
\* any frame, the raw value it encodes is 10000, and Get_BR1_N_VehicleSpeed
\* on the frame it leaves returns true with 100.00.
C12_VehicleSpeedScenario ==
  (IsSet /\ S0 = "BR1_N_VehicleSpeed" /\ call.arg = F32(10000)) =>
    /\ call.ret
    /\ RawValue(S0, call.arg) = 10000
    /\ Get_S(frame, out, S0) = [ret |-> TRUE, value |-> F32(10000)]

\* C13: Concrete scenario 3.  Set_AUDIO7_St_SetTempVoiceControl_L with 18.0
\* succeeds on any frame with raw value 0, and the Get_ on the frame it
\* leaves returns true with exactly 18.0, whatever the payload was before.
C13_SetTempScenario ==
  (IsSet /\ S0 = "AUDIO7_St_SetTempVoiceControl_L" /\ call.arg = F32(1800)) =>
    /\ call.ret
    /\ RawValue(S0, call.arg) = 0
    /\ Get_S(frame, out, S0) = [ret |-> TRUE, value |-> F32(1800)]

\* the scenario on a frame whose payload was all ones, so that the field
\* decoded to another value before the set
C13_Witness ==
  /\ IsSet /\ S0 = "AUDIO7_St_SetTempVoiceControl_L" /\ call.arg = F32(1800)
  /\ call.ret
  /\ call.frame0.data[2] = \HFF
  /\ GetLoop(call.frame0.data, S0, 0, 0) # 0

\* C14 as stated: whenever Get_S returns false, the output variable holds
\* the value it held before the call.
C14_NoValueOnFailure ==
  (IsGet /\ ~call.ret) => out = call.out0

\* C14, amended: whenever Get_S returns false on an identifier mismatch, the
\* output variable holds the value it held before the call; whenever it
\* returns false on a matching identifier, the output variable holds the
\* value computed from the payload, raw * scale + offset, and no other.
C14_FailureOutput ==
  (IsGet /\ ~call.ret) =>
    IF frame.id # Sig[S0].id
    THEN out = call.out0
    ELSE out = Physical(S0, Raw0)

\* a decode that failed on an identifier mismatch over a payload that, under
\* the signal's own id, decodes to a value other than the one the output
\* variable held
C14_Witness ==
  /\ IsGet /\ ~call.ret
  /\ frame.id # Sig[S0].id
  /\ Physical(S0, Raw0) # call.out0
  /\ Physical(S0, Raw0) # F32(0)

\* C15: Null arguments to decode in a release build.  Get_S called with a
\* null frame or a null output pointer returns false, the output variable
\* and the frame are as before the call, and the process is not ended.
C15_NullDecodeRelease ==
  (IsGetNull /\ ~debug) =>
    /\ call.end = "return"
    /\ ~call.ret
    /\ out = call.out0
    /\ frame = call.frame0

\* a release-build Get_S with a null output pointer on a frame that the same
\* call with a valid pointer decodes successfully
C15_Witness ==
  /\ IsGetNull /\ ~debug
  /\ call.fp = Valid /\ call.vp = NULL
  /\ Get_S(frame, out, S0).ret

\* C16: Null frame to encode in a release build.  Set_S called with a null
\* frame returns false and neither ends the process nor accesses the null
\* frame, for in-range and out-of-range values alike.
C16_NullEncodeRelease ==
  (IsSetNull /\ ~debug) => (call.end = "return" /\ ~call.ret)

\* C17: Concurrent decode is safe.  Under every interleaving of the steps of
\* concurrent Get_ calls the frame is as it was, and every call that has
\* returned has the return value and the output value that the call gives
\* when it runs alone on the frame.
C17_ConcurrentDecode ==
  /\ thr # NoThreads => frame = call.frame0
  /\ \A t \in DOMAIN thr :
       thr[t].pc = "done" =>
         [ret |-> thr[t].ret, value |-> thr[t].out]
           = Get_S(frame, Untouched, thr[t].sig)

\* a call has returned successfully with a value of more than one raw bit
\* while another call on the same signal is in the middle of its loop
C17_Witness ==
  \E t \in DOMAIN thr : \E u \in DOMAIN thr :
    /\ t # u
    /\ thr[t].pc = "done" /\ thr[t].ret
    /\ thr[t].out # F32(Sig[thr[t].sig].offset)
    /\ thr[u].pc = "loop" /\ thr[u].sig = thr[t].sig
    /\ thr[u].i > 0 /\ thr[u].i < Sig[thr[u].sig].bit_length
    /\ acc[RawCell(u)] > 0

\* C18: Bit walk stays inside the payload.  For every loop index of a call
\* that runs the loop, byte_pos is in 0..7 and bit_pos is in 0..7.
C18_BitWalkInPayload ==
  ((IsGet /\ frame.id = Sig[S0].id) \/ (IsSet /\ call.ret)) =>
    \A i \in 0..(Sig[S0].bit_length - 1) :
      byte_pos(S0, i) \in 0..7 /\ bit_pos(S0, i) \in 0..7

\* C19: Out-of-range decode path.  When the frame id matches and the value
\* computed from the payload is below min or above max, Get_S returns false
\* and the output variable holds that value, which is outside [min, max].
C19_OutOfRangeDecode ==
  (IsGet /\ frame.id = Sig[S0].id /\ OutOfRange(S0, Physical(S0, Raw0))) =>
    /\ ~call.ret
    /\ out = Physical(S0, Raw0)
    /\ ~Within(out, Sig[S0].min, Sig[S0].max)

\* Get_TBOX1_St_CLM on a payload with both bits of the field set: raw 3,
\* value 3.0 above the maximum 2
C19_Witness ==
  /\ IsGet /\ S0 = "TBOX1_St_CLM" /\ frame.id = Sig[S0].id
  /\ Raw0 = 3
  /\ ~call.ret
  /\ out = F32(300) /\ out # call.out0

OwnBits(s) == {q \in Span(s) : q[2] <= 7}

\* frame f with its dlc changed and every payload bit that is not a bit of
\* signal s inverted
FlipOutside(f, s) ==
  LET bit(b, p) == IF <<b, p>> \in OwnBits(s)
                   THEN PayloadBit(f.data, b, p)
                   ELSE 1 - PayloadBit(f.data, b, p)
  IN  [id |-> f.id, dlc |-> 8 - f.dlc,
       data |-> [b \in 0..7 |->
                   bit(b, 0) + 2 * bit(b, 1) + 4 * bit(b, 2) + 8 * bit(b, 3)
                     + 16 * bit(b, 4) + 32 * bit(b, 5) + 64 * bit(b, 6)
                     + 128 * bit(b, 7)]]

\* frames f and g have the same id and agree on every payload bit of s
AgreeOn(f, g, s) ==
  /\ f.id = g.id
  /\ \A q \in OwnBits(s) :
       PayloadBit(f.data, q[1], q[2]) = PayloadBit(g.data, q[1], q[2])

\* C21: Decode is a pure function of the id and the signal's own bits.  Get_S
\* leaves the frame as it was, and every frame with the same id and the same
\* bits of S, whatever its dlc and its other payload bits, gives the return
\* value and the output value this call gave.
C21_DecodePure ==
  IsGet =>
    /\ frame = call.frame0
    /\ Get_S(FlipOutside(call.frame0, S0), call.out0, S0)
         = [ret |-> call.ret, value |-> out]
    /\ \A g \in Frames :
         AgreeOn(g, call.frame0, S0) =>
           Get_S(g, call.out0, S0) = [ret |-> call.ret, value |-> out]

\* a successful decode of a nonzero raw value from a frame with dlc 8, with
\* another frame of the caller's that agrees on the signal's bits only
C21_Witness ==
  /\ IsGet /\ call.ret /\ Raw0 # 0
  /\ frame.dlc = 8
  /\ \E g \in Frames :
       AgreeOn(g, frame, S0) /\ g.data # frame.data /\ g.dlc # frame.dlc

\* caller t's Set_ call has returned true and the frame's bits of its signal
\* are not the bits the call wrote
Lost(t) ==
  /\ enc[t].pc = "done" /\ enc[t].ret
  /\ GetLoop(frame.data, enc[t].sig, 0, 0)
       # GetLoop(SetLoop(call.frame0.data, enc[t].sig, 0, enc[t].raw),
                 enc[t].sig, 0, 0)

\* C22: Unsynchronized concurrent encode loses updates.  When the two Set_
\* calls run one after the other, the bits of each signal whose call has
\* returned are the bits that call wrote; the state in which they are not is
\* reached only by interleaved steps of unsynchronized calls.
C22_ConcurrentEncode ==
  (\E t \in DOMAIN enc : Lost(t)) => ~sync

\* both unsynchronized calls, for two signals in byte 4 of message 0x347,
\* have returned true and the bits of one of them are lost
C22_Witness ==
  /\ enc # NoThreads /\ ~sync
  /\ \A t \in DOMAIN enc : enc[t].pc = "done" /\ enc[t].ret
  /\ {enc[t].sig : t \in DOMAIN enc}
       = {"AUDIO7_S_AirCirculateVoiceControl",
          "AUDIO7_S_ACCompresSwitchVoiceControl"}
  /\ \E t \in DOMAIN enc : Lost(t)

\* C23: Encode never produces a frame its own decoder rejects.  After a
\* successful Set_S, Get_S on the frame it left returns true.
C23_EncodeDecodable ==
  (IsSet /\ call.ret) => Get_S(frame, out, S0).ret

\* C24: Raw value never wraps on encode.  For every value that passes the
\* range check of Set_S, the raw value round((v - offset) / scale) is in
\* 0 .. 2^bit_length - 1.
C24_RawFitsField ==
  (IsSet /\ call.ret) =>
    /\ RawValue(S0, call.arg) >= 0
    /\ RawValue(S0, call.arg) <= 2^Sig[S0].bit_length - 1

\* a successful Set_S whose raw value is the largest the field can hold
C24_Witness ==
  /\ IsSet /\ call.ret
  /\ Sig[S0].bit_length > 8
  /\ RawValue(S0, call.arg) = 2^Sig[S0].bit_length - 1

\* the signal's field ends at or below bit 7 of its base byte
FitsByte(s) == Sig[s].base_bit + Sig[s].bit_length <= 8

\* C25: Round-trip for fields that end at or below bit 7.  For a signal with
\* base_bit + bit_length <= 8 and the physical value of an in-range raw
\* value, Set_S succeeds and Get_S on the frame it left returns true with
\* exactly that value.
C25_RoundTripFits ==
  (IsSet /\ FitsByte(S0) /\ call.arg \in GridValues[S0]) =>
    /\ call.ret
    /\ Get_S(frame, out, S0) = [ret |-> TRUE, value |-> call.arg]

\* Set_AUDIO7_St_FlowModeVoiceControl with 6.0 (raw 6 in bits 2..4) on a
\* payload that held all ones has changed the payload
C25_Witness ==
  /\ IsSet /\ call.ret
  /\ S0 = "AUDIO7_St_FlowModeVoiceControl" /\ call.arg = F32(600)
  /\ call.frame0.data[2] = \HFF
  /\ frame.data # call.frame0.data

\* the raw value made of the payload bits of s alone: bit i is the payload
\* bit at (byte_pos, bit_pos) where bit_pos <= 7, and 0 elsewhere
RECURSIVE OwnRaw(_, _, _)
OwnRaw(data, s, i) ==
  IF i < Sig[s].bit_length
  THEN (IF bit_pos(s, i) <= 7
        THEN PayloadBit(data, byte_pos(s, i), bit_pos(s, i)) * 2^i
        ELSE 0)
         + OwnRaw(data, s, i + 1)
  ELSE 0

\* C26: Bits walked past bit 7 are dropped.  Get_S delivers the value of the
\* raw value whose bit i is 0 wherever base_bit + (i mod 8) > 7 and the
\* payload bit elsewhere; a successful Set_S leaves each payload bit at a
\* position with base_bit + (i mod 8) <= 7 equal to bit i of the raw value
\* and every other payload bit as it was.
C26_HighBitsDropped ==
  /\ (IsGet /\ frame.id = Sig[S0].id) =>
       /\ out = Physical(S0, OwnRaw(frame.data, S0, 0))
       /\ \A i \in 0..(Sig[S0].bit_length - 1) :
            bit_pos(S0, i) > 7 => GET_BIT(Raw0, i) = 0
  /\ (IsSet /\ call.ret) =>
       /\ \A i \in 0..(Sig[S0].bit_length - 1) :
            bit_pos(S0, i) <= 7 =>
              PayloadBit(frame.data, byte_pos(S0, i), bit_pos(S0, i))
                = GET_BIT(RawValue(S0, call.arg), i)
       /\ \A b \in 0..7 : \A p \in 0..7 :
            <<b, p>> \notin OwnBits(S0) =>
              PayloadBit(frame.data, b, p) = PayloadBit(call.frame0.data, b, p)

\* a successful Set_S of a raw value with a 1 in a dropped bit on an all-zero
\* payload: the payload holds fewer ones than the raw value
C26_Witness ==
  /\ IsSet /\ call.ret
  /\ \A b \in 0..7 : call.frame0.data[b] = 0
  /\ \E i \in 0..(Sig[S0].bit_length - 1) :
       bit_pos(S0, i) > 7 /\ GET_BIT(RawValue(S0, call.arg), i) = 1
  /\ OwnRaw(frame.data, S0, 0) # RawValue(S0, call.arg)

\* the last two calls were successful Set_ calls
TwoSets == IsSet /\ call.ret /\ prev.op = "Set" /\ prev.ret

\* C27: Setters of one message commute.  After Set_A then Set_B for two
\* distinct signals of one message, both successful, the frame is the frame
\* that Set_B then Set_A, with the same values, make of the starting frame.
C27_SettersCommute ==
  (TwoSets /\ prev.sig # S0 /\ Sig[prev.sig].id = Sig[S0].id) =>
    frame = Set_S(Set_S(prev.frame0, S0, call.arg).frame,
                  prev.sig, prev.arg).frame

\* two successful setters of signals in one payload byte, each of which
\* changed the payload
C27_Witness ==
  /\ TwoSets /\ prev.sig # S0 /\ Sig[prev.sig].id = Sig[S0].id
  /\ Sig[prev.sig].base_byte = Sig[S0].base_byte
  /\ call.frame0.data # prev.frame0.data
  /\ frame.data # call.frame0.data

\* C28: Last write wins for one signal.  After Set_S(v1) then Set_S(v2),
\* both successful, the frame is the frame Set_S(v2) alone makes of the
\* starting frame.
C28_LastWriteWins ==
  (TwoSets /\ prev.sig = S0) =>
    frame = Set_S(prev.frame0, S0, call.arg).frame

\* the second write, of another value, has changed the payload the first
\* write left, which differed from the starting payload
C28_Witness ==
  /\ TwoSets /\ prev.sig = S0
  /\ prev.arg # call.arg
  /\ call.frame0.data # prev.frame0.data
  /\ frame.data # call.frame0.data

\* C29: Byte index is always in bounds.  For every signal whose accessors
\* the caller uses and every loop index i in 0..bit_length-1, byte_pos is in
\* 0..7.
C29_ByteIndexInBounds ==
  \A s \in SignalsOf(msgs) :
    \A i \in 0..(Sig[s].bit_length - 1) : byte_pos(s, i) \in 0..7

\* a call whose loop has walked from its base byte into the next lower one
C29_Witness ==
  /\ IsSet /\ call.ret
  /\ Sig[S0].bit_length > 8
  /\ byte_pos(S0, Sig[S0].bit_length - 1) < Sig[S0].base_byte
  /\ frame.data[byte_pos(S0, Sig[S0].bit_length - 1)]
       # call.frame0.data[byte_pos(S0, Sig[S0].bit_length - 1)]

====
